---- MODULE Spec2Model ----
(***************************************************************************)
(* Verification-and-selection engine of codeflash                          *)
(* (src/codeflash/optimization/optimizer.py): Optimizer.run,               *)
(* optimize_function, determine_best_candidate, run_optimized_candidate,   *)
(* establish_original_code_baseline and write_code_and_helpers, as one     *)
(* sequential process plus an external interruption (KeyboardInterrupt).   *)
(***************************************************************************)
EXTENDS Integers, Sequences, FiniteSets, Bags, TLC

\* ------------------------------------------------------------------ bounds
\* most candidates with diffs in one candidate set, in the scan workload
NumCands == 2

\* most candidates with diffs in one candidate set, in the batch workload
BatchCands == 1

\* ---------------------------------------------------------------- the files
\* The module under optimization holds two functions to optimize (slots 1, 2
\* of .body); the helper module holds one helper function.  A function's text
\* is identified by its version: Orig, or the tag <<fi, u, k>> of the
\* candidate (function fi, candidate set u, index k) that supplied it.
\* .fmt says whether the formatter has rewritten the file.
Orig == <<0, 0, 0>>

CandTag(f, s, c) == <<f, s + 1, c>>

OriginalTarget == [body |-> <<Orig, Orig>>, fmt |-> FALSE]

OriginalHelper == [body |-> Orig, fmt |-> FALSE]

\* What a candidate's source holds: a new definition of the target function
\* (t), and for the helper function either no definition ("keep") or a new
\* one ("new").
CandidateSources == [t : BOOLEAN, h : {"keep", "new"}]

NoSource == [t |-> FALSE, h |-> "keep"]

\* replace_function_definitions_in_module on the target module: the named
\* function's definition is replaced by the candidate's, the rest of the
\* module text is kept.
ReplaceInTarget(text, f, src, tag) ==
  [text EXCEPT !.body[f] = IF src.t THEN tag ELSE Orig]

\* replace_function_definitions_in_module on the helper module.
ReplaceInHelper(text, src, tag) ==
  IF src.h = "keep" THEN text ELSE [text EXCEPT !.body = tag]

\* replace_function_and_helpers_with_optimized_code: the target module first,
\* then every helper module; did_update is whether any text changed.
ReplaceFunctionAndHelpers(d, f, src, tag) ==
  [target |-> ReplaceInTarget(d.target, f, src, tag),
   helper |-> ReplaceInHelper(d.helper, src, tag)]

\* write_code_and_helpers(original_code, original_helper_code, path)
WriteCodeAndHelpers(original_code, helper_code) ==
  [target |-> original_code, helper |-> helper_code]

\* reformat_code_and_helpers: the formatter rewrites both files in place.
ReformatCodeAndHelpers(d) ==
  [target |-> [d.target EXCEPT !.fmt = TRUE],
   helper |-> [d.helper EXCEPT !.fmt = TRUE]]

\* ------------------------------------------------------------ test results
\* One pre-existing unit test "e" and one generated regression test "g".
\* A loop-1 result set maps each test to its record: "absent" (no record),
\* "fail", or passed with return-value fingerprint 0 or 1.
TestIds == {"e", "g"}

GeneratedTestIds == {"g"}

Outcomes == {"absent", "fail", "pass0", "pass1"}

DidPass(o) == o \in {"pass0", "pass1"}

RecordedIds(r) == {t \in TestIds : r[t] # "absent"}

PassedIds(r) == {t \in TestIds : DidPass(r[t])}

\* Runtimes in units of 25,000 ns: 40 is 1,000,000 ns, 16 is 400,000 ns,
\* 10 is 250,000 ns, 20 is 500,000 ns.
BaselineRuntimes == {0, 40}

CandidateRuntimes == {0, 10, 16, 20, 40}

\* The workloads: what the run is given and what its collaborators can
\* return.  The scan workload optimizes one function and draws the test
\* results of a candidate from every outcome and runtime; the batch workload
\* optimizes the two functions of the module and draws them from fewer.
ScanWorkload ==
  [funcs |-> 1, cands |-> NumCands,
   args |-> {[no_pr |-> TRUE, all |-> FALSE, experiment |-> FALSE]},
   sources |-> {src \in CandidateSources : src.h = "keep"},
   baseline_outcomes |-> {"absent", "fail", "pass0"},
   outcomes |-> Outcomes, runtimes |-> CandidateRuntimes]

BatchWorkload ==
  [funcs |-> 2, cands |-> BatchCands,
   args |-> {a \in [no_pr : BOOLEAN, all : BOOLEAN, experiment : BOOLEAN] :
               a.no_pr = ~a.all},
   sources |-> CandidateSources,
   baseline_outcomes |-> {"fail", "pass0"},
   outcomes |-> {"fail", "pass0"}, runtimes |-> {0, 16}]

\* A TestResults value: the loop-1 records and total_passed_runtime(), the
\* sum of the runtimes of the passed tests (0 when no test passed).
TestResultsOver(outs, runtimes) ==
  {r \in [loop1 : [TestIds -> outs], runtime : runtimes] :
     PassedIds(r.loop1) = {} => r.runtime = 0}

BaselineTestResults(w) == TestResultsOver(w.baseline_outcomes, BaselineRuntimes)

CandidateTestResults(w) == TestResultsOver(w.outcomes, w.runtimes)

EmptyTestResults == [loop1 |-> [t \in TestIds |-> "absent"], runtime |-> 0]

\* compare_test_results: the same set of test identifiers, each with the
\* same pass/fail flag and the same return-value fingerprint.
compare_test_results(orig, cand) ==
  /\ RecordedIds(orig) = RecordedIds(cand)
  /\ \A t \in RecordedIds(orig) :
       /\ DidPass(orig[t]) = DidPass(cand[t])
       /\ (DidPass(orig[t]) => orig[t] = cand[t])

\* --------------------------------------------------- symbolic differencer
\* Exit statuses of the differencer process; "OTHER" is any status outside
\* the enumerated three (a crash, a signal).
ReturnCodes == {"ERROR", "COUNTER_EXAMPLES", "NO_DIFFERENCES", "OTHER"}

\* The counterexample blocks of the output: each is concrete or holds an
\* object-identity token (" object at 0x...").
ExampleLists == {<<>>, <<"concrete">>, <<"objectid">>, <<"objectid", "concrete">>}

\* Lines 487-489 without the filter: every reported example is kept.
concrete_counter_examples_Unfiltered(examples) == examples

\* lines 482-489: the examples without an object-identity token
concrete_counter_examples(examples) ==
  SelectSeq(examples, LAMBDA e : e = "concrete")

\* The entry stored in diffbehavior_results for a candidate, <<>> when the
\* branch taken stores none.
Classify(rc, examples) ==
  CASE rc = "ERROR" -> <<"ERROR">>
    [] rc = "COUNTER_EXAMPLES" ->
         IF concrete_counter_examples(examples) # <<>>
           THEN <<"COUNTER_EXAMPLES">>
           ELSE <<"ERROR">>
    [] rc = "NO_DIFFERENCES" -> <<"NO_DIFFERENCES">>
    [] OTHER -> <<>>

\* ----------------------------------------------------------------- critics
\* performance_gain: (original - optimized) / optimized, in thousandths.
\* The formula has no value at optimized = 0; the model fixes 0 there.
performance_gain(original_runtime_ns, optimized_runtime_ns) ==
  IF optimized_runtime_ns = 0
    THEN 0
    ELSE ((original_runtime_ns - optimized_runtime_ns) * 1000) \div optimized_runtime_ns

\* speedup_critic: the candidate's runtime is strictly below the incumbent's.
speedup_critic(candidate_result, original_runtime, best_runtime) ==
  candidate_result.best_test_runtime < best_runtime

\* The floor of the minimum-evidence check.
MIN_TESTCASE_PASSED_THRESHOLD == 2

\* quantity_of_tests_critic: the candidate's results hold at least the
\* configured number of passed tests.
quantity_of_tests_critic(candidate_result) ==
  Cardinality(PassedIds(candidate_result.test_results.loop1)) >= MIN_TESTCASE_PASSED_THRESHOLD

\* ------------------------------------------------------------------- state
VARIABLES
  env,                      \* the workload of the run
  args,                     \* no_pr, all (args.all or a PR number), experiment
  pc,                       \* position of run()
  exc,                      \* the exception propagating out of run(), if any
  interrupted_at,           \* history: where the interruption arrived
  disk,                     \* text of the target module and the helper module
  validated_original_code,  \* target module text read at line 150
  fi,                       \* index of the function being optimized
  of_result,                \* Result of the last optimize_function call
  optimizations_found,
  original_helper_code,     \* helper text read at lines 260-263
  generated_tests,          \* test functions of the GeneratedTestsList
  suite_on_disk,            \* test functions of the generated test files on disk
  baseline,                 \* OriginalCodeBaseline
  test_functions_to_remove,
  u,                        \* index of the candidate set: 0 control, 1 experiment
  n_cands,                  \* len(candidates_with_diffs)
  j,                        \* candidate_index of the differencer loop
  diffbehavior_results,
  of_best_optimization,     \* best_optimization of optimize_function
  k,                        \* candidate_index of the scan
  cur_src,                  \* source of the candidate being verified
  best_optimization,        \* of determine_best_candidate
  best_runtime_until_now,
  is_correct,
  optimized_runtimes,
  speedup_ratios,
  candidate_results,        \* TestResults of the candidate's run
  run_results,              \* Result of run_optimized_candidate
  pre_apply,                \* history: disk when the current candidate was applied
  fn_start_disk,            \* history: disk when optimize_function began
  worktrees,                \* worktree_root and the git worktrees of the function
  result,                   \* the differencer process of the last candidate
  instrumented_tests,       \* pre-existing test files whose instrumented copy is on disk
  test_files,               \* the test files that self.test_files lists
  artifacts,                \* result-capture files in the run's temporary directory
  loop,                     \* the manually driven repetition loop
  gen,                      \* generate_tests_and_optimizations and its worker pool
  wt,                       \* the working trees' contents and the differencer's use of them
  posthog,                  \* the telemetry module: _posthog and the events captured
  db                        \* the test discovery database file and its two tables

runVars == <<env, args, validated_original_code, fi, of_result, optimizations_found>>

fnVars == <<original_helper_code, generated_tests, suite_on_disk, baseline,
            test_functions_to_remove, fn_start_disk>>

setVars == <<u, n_cands, j, diffbehavior_results, of_best_optimization, result>>

scanVars == <<k, cur_src, best_optimization, best_runtime_until_now, is_correct,
              optimized_runtimes, speedup_ratios, candidate_results, run_results,
              pre_apply>>

testVars == <<instrumented_tests, test_files, artifacts>>

auxVars == <<loop, gen, wt, posthog, db>>

vars == <<pc, exc, interrupted_at, disk, worktrees, runVars, fnVars, setVars, scanVars,
          testVars, auxVars>>

NoBest == [candidate |-> 0, src |-> NoSource, tag |-> Orig, runtime |-> 0]

NoRun == [tag |-> "none", best_test_runtime |-> 0, test_results |-> EmptyTestResults]

NoBaseline == [overall_test_results |-> EmptyTestResults, runtime |-> 0]

\* line 184: N_CANDIDATES + 1 working trees under one worktree_root.
NumWorktrees(w) == w.cands + 1

\* No worktree_root directory and no working tree registered with git.
NoWorktrees == [root |-> FALSE, added |-> 0]

\* No differencer process has run in this candidate set.
NoResult == [returncode |-> "none", examples |-> <<>>]

\* The repetition loop before its first iteration: unittest_results is empty
\* (n_indices distinct loop indices, the largest being max_index).
NoLoop == [pc |-> "head", i |-> 0, elapsed |-> FALSE, n_indices |-> 0, max_index |-> 0]

\* generate_tests_and_optimizations before anything is submitted.
NoGen == [pc |-> "start", run_experiment |-> FALSE, futures |-> <<>>, outcome |-> "none"]

\* The modules a candidate can rewrite: the target's and the callee's.
Modules == {"target", "helper"}

\* The text of a module as `git worktree add` checks it out.
OriginalText == [kind |-> "original", set |-> 0, cand |-> 0]

\* lines 183-189: worktrees[0..N_CANDIDATES] freshly checked out; nothing was
\* written to a tree or passed to the differencer yet.
NoTrees ==
  [pc |-> "set", u |-> 0, candidates |-> <<>>, cands |-> <<>>, j |-> 1,
   text |-> [i \in 0..NumCands |-> [m \in Modules |-> OriginalText]],
   used |-> [i \in 0..NumCands |-> {}],
   written |-> [i \in 0..NumCands |-> {}],
   compared |-> <<>>, scanned |-> {}]

\* The test files a file_to_test_map can name (str(test_file)).
Files == {"tests/test_a.py", "tests/test_b.py"}

\* utilsdb.py line 5: DB_PATH, next to the module.  Nothing has created the
\* file yet; no add_test_file call has been made.
NoDb ==
  [file |-> "absent", test_files |-> <<>>, tests |-> EmptyBag,
   last |-> [status |-> "none", map |-> [f \in Files |-> <<>>],
             total_records |-> 0, total_duplicates |-> 0, total_added |-> 0]]

\* line 12: _posthog is None; no initialize_posthog call yet, nothing captured.
NoPosthog == [client |-> FALSE, last_call |-> "none", captured |-> <<>>]

InitWith(w) ==
  /\ env = w
  /\ args \in w.args
  /\ pc = "run_module"
  /\ exc = "none"
  /\ interrupted_at = "none"
  /\ disk = [target |-> OriginalTarget, helper |-> OriginalHelper]
  /\ validated_original_code = OriginalTarget
  /\ fi = 1
  /\ of_result = "none"
  /\ optimizations_found = 0
  /\ original_helper_code = OriginalHelper
  /\ generated_tests = {}
  /\ suite_on_disk = {}
  /\ baseline = NoBaseline
  /\ test_functions_to_remove = {}
  /\ fn_start_disk = disk
  /\ u = 0
  /\ n_cands = 0
  /\ j = 1
  /\ diffbehavior_results = <<>>
  /\ of_best_optimization = NoBest
  /\ k = 1
  /\ cur_src = NoSource
  /\ best_optimization = NoBest
  /\ best_runtime_until_now = 0
  /\ is_correct = <<>>
  /\ optimized_runtimes = <<>>
  /\ speedup_ratios = <<>>
  /\ candidate_results = EmptyTestResults
  /\ run_results = NoRun
  /\ pre_apply = disk
  /\ worktrees = NoWorktrees
  /\ result = NoResult
  /\ instrumented_tests = {}
  /\ test_files = {}
  /\ artifacts = {}
  /\ loop = NoLoop
  /\ gen = NoGen
  /\ wt = NoTrees
  /\ posthog = NoPosthog
  /\ db = NoDb

\* The locals of a frame that has been left hold nothing any more.
ScanLocalsReset ==
  /\ k' = 1
  /\ cur_src' = NoSource
  /\ best_optimization' = NoBest
  /\ best_runtime_until_now' = 0
  /\ is_correct' = <<>>
  /\ optimized_runtimes' = <<>>
  /\ speedup_ratios' = <<>>
  /\ candidate_results' = EmptyTestResults
  /\ run_results' = NoRun

SetLocalsReset ==
  /\ u' = 0
  /\ n_cands' = 0
  /\ j' = 1
  /\ diffbehavior_results' = <<>>
  /\ of_best_optimization' = NoBest
  /\ result' = NoResult

FnLocalsReset ==
  /\ generated_tests' = {}
  /\ baseline' = NoBaseline
  /\ test_functions_to_remove' = {}

\* An exception leaves optimize_function and the loops of run().
Unwind ==
  /\ ScanLocalsReset
  /\ SetLocalsReset
  /\ FnLocalsReset
  /\ UNCHANGED <<original_helper_code, suite_on_disk, fn_start_disk, pre_apply>>

\* ------------------------------------------------------------------ run()
\* line 150: the module text is read once per module, before its functions.
RunReadModule ==
  /\ pc = "run_module"
  /\ validated_original_code' = disk.target
  /\ fi' = 1
  /\ pc' = "run_function"
  /\ UNCHANGED <<testVars, worktrees, auxVars, exc, interrupted_at, disk, env, args, of_result, optimizations_found, fnVars, setVars, scanVars>>

\* lines 182-205: the working trees are created, then optimize_function is called.
RunStartFunction ==
  /\ pc = "run_function"
  /\ of_result' = "none"
  /\ \E failed_at \in 0..NumWorktrees(env) :
       IF failed_at = 0
         THEN /\ worktrees' = [root |-> TRUE, added |-> NumWorktrees(env)]
              /\ pc' = "of_context"
              /\ exc' = exc
         ELSE \* lines 186-189, check=True: CalledProcessError leaves run()
              /\ worktrees' = [root |-> TRUE, added |-> failed_at - 1]
              /\ exc' = "CalledProcessError"
              /\ pc' = "run_finally"
  /\ UNCHANGED <<testVars, auxVars, interrupted_at, disk, env, args, validated_original_code, fi,
                 optimizations_found, fnVars, setVars, scanVars>>

\* lines 206-220: after optimize_function returned the working trees are
\* removed; then the next function, or the end of the loops.
\* Line 206 left out: the list outlives the function.
TestFilesAfterFunction_Kept(files) == files

\* line 206: self.test_files = TestFiles(test_files=[])
TestFilesAfterFunction(files) == {}

RunAfterFunction ==
  /\ pc = "run_after"
  /\ \E failed_at \in 0..worktrees.added :
       \* lines 208-213: the removal stops at the first tree git cannot remove;
       \* the warning is logged and worktree_root is deleted all the same.
       worktrees' = [root |-> FALSE,
                     added |-> IF failed_at = 0 THEN 0
                                              ELSE worktrees.added - failed_at + 1]
  /\ optimizations_found' = IF of_result = "Success" THEN optimizations_found + 1
                                                      ELSE optimizations_found
  /\ IF fi < env.funcs
       THEN fi' = fi + 1 /\ pc' = "run_function"
       ELSE fi' = fi /\ pc' = "run_finally"
  /\ test_files' = TestFilesAfterFunction(test_files)
  /\ UNCHANGED <<instrumented_tests, artifacts, auxVars, exc, interrupted_at, disk, env, args, validated_original_code, of_result,
                 fnVars, setVars, scanVars>>

\* lines 226-232: the finally block unlinks the instrumented files that
\* self.test_files lists; run() ends, with exc propagating if set.
RunFinally ==
  /\ pc = "run_finally"
  /\ pc' = "terminated"
  /\ suite_on_disk' = suite_on_disk \ test_files             \* lines 227-228
  /\ instrumented_tests' = instrumented_tests \ test_files   \* lines 229-230
  /\ artifacts' = {}                                           \* lines 231-232
  /\ UNCHANGED <<test_files, worktrees, auxVars, exc, interrupted_at, disk, runVars,
                 original_helper_code, generated_tests, baseline, test_functions_to_remove,
                 fn_start_disk, setVars, scanVars>>

\* ---------------------------------------------------- optimize_function()
\* lines 906-911: the pre-existing test files that call the function; the
\* functions of the module are called in the same test file.
ExistingTestFiles == TestIds \ GeneratedTestIds

\* lines 244-280: the optimization context; the helper text is read from disk
\* and the function's pre-existing test file is instrumented: the copy is
\* written next to it and listed in self.test_files (lines 934-949).
OfContext ==
  /\ pc = "of_context"
  /\ fn_start_disk' = disk
  /\ \E ok \in BOOLEAN :
       IF ok
         THEN /\ original_helper_code' = disk.helper
              /\ instrumented_tests' = instrumented_tests \cup ExistingTestFiles
              /\ test_files' = test_files \cup ExistingTestFiles
              /\ pc' = "of_generate"
              /\ UNCHANGED <<of_result, artifacts>>
         ELSE /\ of_result' = "Failure"
              /\ pc' = "run_after"
              /\ UNCHANGED <<original_helper_code, testVars>>
  /\ UNCHANGED <<worktrees, auxVars, exc, interrupted_at, disk, env, args, validated_original_code, fi, optimizations_found,
                 generated_tests, suite_on_disk, baseline, test_functions_to_remove,
                 setVars, scanVars>>

\* lines 325-326 and 605-606 left out: the generated test files stay.
UnlinkGeneratedTests_Skipped(suite) == suite

\* lines 325-326 and 605-606: every path of generated_tests_paths is unlinked.
UnlinkGeneratedTests(suite) == {}

\* lines 282-317: generation; the generated test files are written and
\* listed in self.test_files.
OfGenerate ==
  /\ pc = "of_generate"
  /\ \E ok \in BOOLEAN :
       IF ok
         THEN /\ generated_tests' = GeneratedTestIds
              /\ suite_on_disk' = GeneratedTestIds
              /\ test_files' = test_files \cup GeneratedTestIds
              /\ pc' = "of_baseline"
              /\ UNCHANGED of_result
         ELSE /\ of_result' = "Failure"
              /\ pc' = "run_after"
              /\ UNCHANGED <<generated_tests, suite_on_disk, test_files>>
  /\ UNCHANGED <<instrumented_tests, artifacts, worktrees, auxVars, exc, interrupted_at, disk, env, args, validated_original_code, fi, optimizations_found,
                 original_helper_code, baseline, test_functions_to_remove, fn_start_disk,
                 setVars, scanVars>>

\* lines 1112-1114: the generated regression tests that fail on the original.
functions_to_remove(results) ==
  {t \in GeneratedTestIds : results.loop1[t] = "fail"}

\* Lines 1116-1131 without the tests on total_timing (1122-1129).
BaselineFails_NoRecordsOnly(results) ==
  RecordedIds(results.loop1) = {}

\* lines 1116-1131: when the baseline is declared a failure.
BaselineFails(results) ==
  \/ RecordedIds(results.loop1) = {}
  \/ results.runtime = 0

\* lines 1029-1110: establish_original_code_baseline runs the tests on the
\* original code; unittest_results and total_timing are held in baseline.
OfBaselineRun ==
  /\ pc = "of_baseline"
  /\ \E results \in BaselineTestResults(env) :
       baseline' = [overall_test_results |-> results, runtime |-> results.runtime]
  /\ pc' = "of_baseline_check"
  /\ UNCHANGED <<testVars, worktrees, auxVars, exc, interrupted_at, disk, runVars, original_helper_code,
                 generated_tests, suite_on_disk, test_functions_to_remove, fn_start_disk,
                 setVars, scanVars>>

\* lines 1112-1150 and 320-332: the baseline is declared a failure or returned.
OfBaseline ==
  /\ pc = "of_baseline_check"
  /\ LET results == baseline.overall_test_results IN
       IF BaselineFails(results)
         THEN /\ suite_on_disk' = UnlinkGeneratedTests(suite_on_disk)
              /\ of_result' = "Failure"
              /\ pc' = "run_after"
              /\ generated_tests' = {}
              /\ baseline' = NoBaseline
              /\ instrumented_tests' = instrumented_tests \ ExistingTestFiles    \* lines 328-329
              /\ UNCHANGED <<test_functions_to_remove, u, of_best_optimization>>
         ELSE /\ test_functions_to_remove' = functions_to_remove(results)
              /\ of_best_optimization' = NoBest
              /\ u' = 0
              /\ pc' = "of_set"
              /\ UNCHANGED <<baseline, suite_on_disk, of_result, generated_tests,
                             instrumented_tests>>
  /\ UNCHANGED <<test_files, artifacts, worktrees, auxVars, result, exc, interrupted_at, disk, env, args, validated_original_code, fi, optimizations_found,
                 original_helper_code, fn_start_disk,
                 n_cands, j, diffbehavior_results, scanVars>>

\* line 336: [optimizations_set.control, optimizations_set.experiment]
NumSets == Len(<<"control", "experiment">>)

\* lines 337-338: the experiment set is None unless an experiment is run.
CandidatesIsNone(s) == s = 1 /\ ~args.experiment

\* line 336, the loop is exhausted; lines 605-612.
OfEnd ==
  /\ pc = "of_set"
  /\ u = NumSets
  /\ suite_on_disk' = UnlinkGeneratedTests(suite_on_disk)
  /\ of_result' = IF of_best_optimization = NoBest THEN "Failure" ELSE "Success"
  /\ pc' = "run_after"
  /\ instrumented_tests' = instrumented_tests \ ExistingTestFiles                \* lines 607-608
  /\ SetLocalsReset
  /\ FnLocalsReset
  /\ UNCHANGED <<test_files, artifacts, worktrees, auxVars, exc, interrupted_at, disk, env, args, validated_original_code, fi, optimizations_found,
                 original_helper_code, fn_start_disk, scanVars>>

\* lines 337-338
OfSetSkip ==
  /\ pc = "of_set"
  /\ u < NumSets
  /\ CandidatesIsNone(u)
  /\ u' = u + 1
  /\ UNCHANGED <<testVars, worktrees, auxVars, result, pc, exc, interrupted_at, disk, runVars, fnVars, n_cands, j, diffbehavior_results,
                 of_best_optimization, scanVars>>

\* lines 340-434: candidates_with_diffs is computed; the differencer loop starts.
OfSetStart ==
  /\ pc = "of_set"
  /\ u < NumSets
  /\ ~CandidatesIsNone(u)
  /\ \E n \in 0..env.cands : n_cands' = n
  /\ diffbehavior_results' = <<>>
  /\ j' = 1
  /\ pc' = "of_diff"
  /\ UNCHANGED <<testVars, worktrees, auxVars, result, exc, interrupted_at, disk, runVars, fnVars, u, of_best_optimization, scanVars>>

\* lines 437-521: one iteration of the differencer loop.
OfDiffbehavior ==
  /\ pc = "of_diff"
  /\ j <= n_cands
  /\ \E rc \in ReturnCodes, examples \in ExampleLists :
       LET c == Classify(rc, examples) IN
       /\ result' = [returncode |-> rc, examples |-> examples]
       /\ diffbehavior_results' =
            IF c = <<>> THEN diffbehavior_results
                        ELSE (j :> c[1]) @@ diffbehavior_results
  /\ j' = j + 1
  /\ UNCHANGED <<testVars, worktrees, auxVars, pc, exc, interrupted_at, disk, runVars, fnVars, u, n_cands, of_best_optimization, scanVars>>

\* ------------------------------------------------- run_optimized_candidate()
\* test_return_values_<index>.bin and test_return_values_<index>.sqlite
ReturnValueFiles(index) == {<<index, "bin">>, <<index, "sqlite">>}

\* lines 641-642 and 1279-1281: both files of the index are unlinked.
UnlinkReturnValues(a, index) == a \ ReturnValueFiles(index)

\* A run_optimized_candidate without lines 1279-1281.
ArtifactsAfterRun_NoCleanup(a, index) ==
  (a \ {<<index, "sqlite">>}) \cup ReturnValueFiles(index)

\* lines 1173-1281: the .sqlite file is unlinked (1173-1174), the test runs
\* write the files of the index, which are parsed, and both are unlinked.
ArtifactsAfterRun(a, index) ==
  UnlinkReturnValues((a \ {<<index, "sqlite">>}) \cup ReturnValueFiles(index), index)

\* A run_optimized_candidate that forgets lines 1242-1245 and 1282-1283: a
\* mismatch of the test results does not fail the candidate.
CandidateSuccess_IgnoresMismatch(original_loop1, candidate_loop1, diffbehavior_result) ==
  diffbehavior_result # "COUNTER_EXAMPLES"

\* A run_optimized_candidate that forgets lines 1267-1268: concrete
\* counterexamples do not fail a candidate whose tests match.
CandidateSuccess_IgnoresCounterExamples(original_loop1, candidate_loop1, diffbehavior_result) ==
  compare_test_results(original_loop1, candidate_loop1)

\* A run_optimized_candidate that skips the comparison of lines 1239-1245
\* when the candidate's run left no loop-1 record.
CandidateSuccess_EmptyPasses(original_loop1, candidate_loop1, diffbehavior_result) ==
  \/ RecordedIds(candidate_loop1) = {}
  \/ /\ compare_test_results(original_loop1, candidate_loop1)
     /\ diffbehavior_result # "COUNTER_EXAMPLES"

\* lines 1239-1286: success of run_optimized_candidate from the equivalence
\* verdict and the symbolic classification, statement by statement.
CandidateSuccess(original_loop1, candidate_loop1, diffbehavior_result) ==
  LET matched == compare_test_results(original_loop1, candidate_loop1)
      success1 == matched                                     \* lines 1239-1245
      false_negative ==                                       \* lines 1259-1268
        diffbehavior_result = "COUNTER_EXAMPLES" /\ matched
      success2 == success1 /\ ~false_negative
      equal_results == matched /\ ~false_negative
  IN  success2 /\ equal_results                               \* lines 1282-1286

\* lines 1276-1296: the Result returned.  A total runtime of 0 is logged
\* (lines 1276-1278) and changes nothing.
run_optimized_candidate(original_results, cand_results, diffbehavior_result) ==
  IF CandidateSuccess(original_results.loop1, cand_results.loop1, diffbehavior_result)
    THEN [tag |-> "Success", best_test_runtime |-> cand_results.runtime,
          test_results |-> cand_results]
    ELSE [tag |-> "Failure", best_test_runtime |-> 0,
          test_results |-> EmptyTestResults]

\* ------------------------------------------------ determine_best_candidate()
\* Lines 684-686 without the quantity-of-tests critic.
ShouldReplace_SpeedupOnly(candidate_result, original_runtime, best_runtime) ==
  speedup_critic(candidate_result, original_runtime, best_runtime)

\* lines 684-686: whether a successful candidate becomes the new best.
ShouldReplace(candidate_result, original_runtime, best_runtime) ==
  /\ speedup_critic(candidate_result, original_runtime, best_runtime)
  /\ quantity_of_tests_critic(candidate_result)

\* Lines 678-680 with the incumbent's runtime in the place of the baseline's.
SpeedupRecorded_AgainstIncumbent(original_runtime, best_runtime, optimized_runtime) ==
  performance_gain(best_runtime, optimized_runtime)

\* lines 678-681: the speedup recorded for a successful candidate is its
\* gain over original_code_baseline.runtime.
SpeedupRecorded(original_runtime, best_runtime, optimized_runtime) ==
  performance_gain(original_runtime, optimized_runtime)

\* Line 702 moved out of the critics' branch: every successful candidate's
\* runtime becomes best_runtime_until_now.
VerdictBestRuntime_NoCritic(rr, original_runtime, best_runtime) ==
  IF rr.tag = "Success" THEN rr.best_test_runtime ELSE best_runtime

\* lines 669-702: best_runtime_until_now after the verdict on one candidate.
VerdictBestRuntime(rr, original_runtime, best_runtime) ==
  IF rr.tag = "Success" /\ ShouldReplace(rr, original_runtime, best_runtime)
    THEN rr.best_test_runtime
    ELSE best_runtime

\* lines 669-702: best_optimization after the verdict on one candidate.
VerdictBest(rr, original_runtime, best_runtime, best, cand) ==
  IF rr.tag = "Success" /\ ShouldReplace(rr, original_runtime, best_runtime)
    THEN [cand EXCEPT !.runtime = rr.best_test_runtime]
    ELSE best

\* Lines 659 and 713 left out: the files keep what the candidate wrote.
RestoreOriginal_Skipped == disk

\* lines 713 and 659: the restore step.
RestoreOriginal ==
  WriteCodeAndHelpers(validated_original_code, original_helper_code)

\* The handler without line 715: the interruption is re-raised at once.
InterruptRestore_Skipped(d) == d

\* lines 714-715: what the interruption handler leaves on disk.
InterruptRestore(d) ==
  WriteCodeAndHelpers(validated_original_code, original_helper_code)

\* Line 628 starting the incumbent above the baseline runtime.
InitialBestRuntime_AboveBaseline(original_code_baseline) ==
  original_code_baseline.runtime + original_code_baseline.runtime + 1

\* line 628: best_runtime_until_now = original_code_baseline.runtime
InitialBestRuntime(original_code_baseline) == original_code_baseline.runtime

\* lines 527-537 and 627-638: the scan starts once the differencer loop is over.
DetermineBestCandidateStart ==
  /\ pc = "of_diff"
  /\ j > n_cands
  /\ best_optimization' = NoBest
  /\ best_runtime_until_now' = InitialBestRuntime(baseline)
  /\ is_correct' = <<>>
  /\ optimized_runtimes' = <<>>
  /\ speedup_ratios' = <<>>
  /\ k' = 1
  /\ pre_apply' = disk
  /\ result' = NoResult
  /\ pc' = "scan_next"
  /\ UNCHANGED <<testVars, worktrees, auxVars, exc, interrupted_at, disk, runVars, fnVars, u, n_cands, j,
                 diffbehavior_results, of_best_optimization,
                 cur_src, candidate_results, run_results>>

\* lines 640-660: the next candidate is applied.  The replacement can raise
\* one of the caught errors before anything is written (fails = "target") or
\* after the target module was written (fails = "helper").
ScanApply ==
  /\ pc = "scan_next"
  /\ k <= n_cands
  /\ pre_apply' = disk
  /\ artifacts' = UnlinkReturnValues(artifacts, k)             \* lines 641-642
  /\ \E src \in env.sources, fails \in {"none", "target", "helper"} :
       LET tag == CandTag(fi, u, k)
           applied == ReplaceFunctionAndHelpers(disk, fi, src, tag)
           did_update == applied # disk
       IN  /\ cur_src' = src
           /\ CASE fails = "target" ->
                     /\ disk' = disk
                     /\ pc' = "scan_apply_error"
                     /\ k' = k
                [] fails = "helper" ->
                     /\ disk' = [disk EXCEPT !.target = applied.target]
                     /\ pc' = "scan_apply_error"
                     /\ k' = k
                [] OTHER ->
                     /\ disk' = applied
                     /\ IF did_update
                          THEN pc' = "scan_run" /\ k' = k
                          ELSE pc' = "scan_next" /\ k' = k + 1    \* lines 652-656
  /\ UNCHANGED <<instrumented_tests, test_files, worktrees, auxVars, exc, interrupted_at, runVars, fnVars, setVars, best_optimization, best_runtime_until_now,
                 is_correct, optimized_runtimes, speedup_ratios, candidate_results,
                 run_results>>

\* lines 657-660: a caught apply error; the original is written back.
ScanApplyError ==
  /\ pc = "scan_apply_error"
  /\ disk' = RestoreOriginal
  /\ k' = k + 1
  /\ pc' = "scan_next"
  /\ UNCHANGED <<testVars, worktrees, auxVars, exc, interrupted_at, runVars, fnVars, setVars, cur_src, best_optimization,
                 best_runtime_until_now, is_correct, optimized_runtimes, speedup_ratios,
                 candidate_results, run_results, pre_apply>>

\* lines 662-667 with run_optimized_candidate: the candidate's tests run.
ScanRun ==
  /\ pc = "scan_run"
  /\ k \in DOMAIN diffbehavior_results
  /\ \E results \in CandidateTestResults(env) :
       /\ candidate_results' = results
       /\ run_results' = run_optimized_candidate(baseline.overall_test_results, results,
                                                 diffbehavior_results[k])
  /\ artifacts' = ArtifactsAfterRun(artifacts, k)
  /\ pc' = "scan_verdict"
  /\ UNCHANGED <<instrumented_tests, test_files, worktrees, auxVars, exc, interrupted_at, disk, runVars, fnVars, setVars, k, cur_src, best_optimization,
                 best_runtime_until_now, is_correct, optimized_runtimes, speedup_ratios,
                 pre_apply>>

\* line 666: diffbehavior_results holds no entry for the candidate; the
\* KeyError is caught nowhere and leaves run() through its finally block.
ScanRunKeyError ==
  /\ pc = "scan_run"
  /\ k \notin DOMAIN diffbehavior_results
  /\ exc' = "KeyError"
  /\ pc' = "run_finally"
  /\ Unwind
  /\ UNCHANGED <<testVars, worktrees, auxVars, interrupted_at, disk, runVars>>

\* lines 669-711: the verdict is recorded and the best candidate updated.
ScanVerdict ==
  /\ pc = "scan_verdict"
  /\ IF run_results.tag = "Success"
       THEN /\ optimized_runtimes' = (k :> <<run_results.best_test_runtime>>) @@ optimized_runtimes
            /\ is_correct' = (k :> TRUE) @@ is_correct
            /\ speedup_ratios' =
                 (k :> <<SpeedupRecorded(baseline.runtime, best_runtime_until_now,
                                         run_results.best_test_runtime)>>)
                   @@ speedup_ratios
       ELSE /\ optimized_runtimes' = (k :> <<>>) @@ optimized_runtimes
            /\ is_correct' = (k :> FALSE) @@ is_correct
            /\ speedup_ratios' = (k :> <<>>) @@ speedup_ratios
  /\ best_optimization' =
       VerdictBest(run_results, baseline.runtime, best_runtime_until_now, best_optimization,
                   [candidate |-> k, src |-> cur_src, tag |-> CandTag(fi, u, k), runtime |-> 0])
  /\ best_runtime_until_now' =
       VerdictBestRuntime(run_results, baseline.runtime, best_runtime_until_now)
  /\ pc' = "scan_restore"
  /\ UNCHANGED <<testVars, worktrees, auxVars, exc, interrupted_at, disk, runVars, fnVars, setVars, k, cur_src, candidate_results,
                 run_results, pre_apply>>

\* line 713: the original is written back; the loop goes to the next
\* candidate, and the results of this one are read no more.
ScanRestore ==
  /\ pc = "scan_restore"
  /\ disk' = RestoreOriginal
  /\ k' = k + 1
  /\ pc' = "scan_next"
  /\ cur_src' = NoSource
  /\ candidate_results' = EmptyTestResults
  /\ run_results' = NoRun
  /\ UNCHANGED <<testVars, worktrees, auxVars, exc, interrupted_at, runVars, fnVars, setVars, best_optimization,
                 best_runtime_until_now, is_correct, optimized_runtimes, speedup_ratios,
                 pre_apply>>

\* lines 719-726 and 538-542: the scan returns; the failing generated tests are
\* removed from the GeneratedTestsList.
ScanDone ==
  /\ pc = "scan_next"
  /\ k > n_cands
  /\ of_best_optimization' = best_optimization
  /\ generated_tests' = generated_tests \ test_functions_to_remove
  /\ ScanLocalsReset
  /\ IF best_optimization # NoBest
       THEN pc' = "of_write_best" /\ u' = u
       ELSE pc' = "of_set" /\ u' = u + 1
  /\ UNCHANGED <<testVars, worktrees, auxVars, result, exc, interrupted_at, disk, runVars, original_helper_code, suite_on_disk, baseline,
                 test_functions_to_remove, fn_start_disk, n_cands, j, diffbehavior_results,
                 pre_apply>>

\* lines 544-574: the best candidate's code is written to the modules and
\* the modules are reformatted.
OfWriteBest ==
  /\ pc = "of_write_best"
  /\ disk' = ReformatCodeAndHelpers(
               ReplaceFunctionAndHelpers(disk, fi, of_best_optimization.src,
                                         of_best_optimization.tag))
  /\ pc' = "of_pr"
  /\ UNCHANGED <<testVars, worktrees, auxVars, exc, interrupted_at, runVars, fnVars, setVars, scanVars>>

\* lines 588-604: the pull request; the original is written back only when a
\* pull request is made and --all or a PR number is set.
OfCreatePr ==
  /\ pc = "of_pr"
  /\ disk' = IF ~args.no_pr /\ args.all THEN RestoreOriginal ELSE disk
  /\ u' = u + 1
  /\ pc' = "of_set"
  /\ UNCHANGED <<testVars, worktrees, auxVars, result, exc, interrupted_at, runVars, fnVars, n_cands, j, diffbehavior_results,
                 of_best_optimization, scanVars>>

\* ------------------------------------------------------------ interruption
\* the statements of determine_best_candidate inside try (lines 639-713)
ScanPcs == {"scan_next", "scan_apply_error", "scan_run", "scan_verdict", "scan_restore"}

\* the statements of run() inside try (lines 130-225), outside the scan
RunPcs == {"run_module", "run_function", "run_after", "of_context", "of_generate",
           "of_baseline", "of_baseline_check", "of_set", "of_diff", "of_write_best", "of_pr"}

\* A KeyboardInterrupt arrives during the scan: line 714 catches it.  One that
\* arrives while the candidate's tests run can leave their files behind.
InterruptInScan ==
  /\ pc \in ScanPcs
  /\ exc = "none"
  /\ exc' = "KeyboardInterrupt"
  /\ interrupted_at' = pc
  /\ pc' = "scan_interrupted"
  /\ is_correct' = <<>>                       \* line 719 is not reached:
  /\ optimized_runtimes' = <<>>               \* the verdicts recorded so far
  /\ speedup_ratios' = <<>>                   \* are read no more
  /\ artifacts' \in IF pc = "scan_run"
                      THEN {artifacts, ArtifactsAfterRun_NoCleanup(artifacts, k)}
                      ELSE {artifacts}
  /\ UNCHANGED <<instrumented_tests, test_files, worktrees, auxVars, disk, runVars, fnVars, setVars, k, cur_src, best_optimization,
                 best_runtime_until_now, candidate_results, run_results, pre_apply>>

\* lines 714-717: the original is written back, the interruption is re-raised
\* and leaves optimize_function and run() through the finally block.
ScanHandleInterrupt ==
  /\ pc = "scan_interrupted"
  /\ disk' = InterruptRestore(disk)
  /\ pc' = "run_finally"
  /\ Unwind
  /\ UNCHANGED <<testVars, worktrees, auxVars, exc, interrupted_at, runVars>>

\* A KeyboardInterrupt arrives elsewhere in run(): nothing catches it.
InterruptOutsideScan ==
  /\ pc \in RunPcs
  /\ exc = "none"
  /\ exc' = "KeyboardInterrupt"
  /\ interrupted_at' = pc
  /\ pc' = "run_finally"
  /\ Unwind
  /\ UNCHANGED <<testVars, worktrees, auxVars, disk, runVars>>

Next ==
  \/ RunReadModule
  \/ RunStartFunction
  \/ RunAfterFunction
  \/ RunFinally
  \/ OfContext
  \/ OfGenerate
  \/ OfBaselineRun
  \/ OfBaseline
  \/ OfEnd
  \/ OfSetSkip
  \/ OfSetStart
  \/ OfDiffbehavior
  \/ DetermineBestCandidateStart
  \/ ScanApply
  \/ ScanApplyError
  \/ ScanRun
  \/ ScanRunKeyError
  \/ ScanVerdict
  \/ ScanRestore
  \/ ScanDone
  \/ OfWriteBest
  \/ OfCreatePr
  \/ InterruptInScan
  \/ ScanHandleInterrupt
  \/ InterruptOutsideScan

\* The batch: run() over the two functions of one module.
Init == InitWith(BatchWorkload)

Spec == Init /\ [][Next]_vars

\* One function and its candidate scan, with the full range of test results.
InitScan == InitWith(ScanWorkload)

SpecScan == InitScan /\ [][Next]_vars

\* ------------------------------------------------------ the repetition loop
\* Lines 1073-1087 (the baseline) and, word for word, lines 1202-1218 (a
\* candidate): the loop driven by hand when the test framework is unittest.
mainVars == <<pc, exc, interrupted_at, disk, worktrees, runVars, fnVars, setVars, scanVars,
              testVars>>

\* line 1076: range(100)
MaxLoops == 100

\* line 1077: i >= 5
MinLoops == 5

\* line 1077: the test at the head of an iteration
LoopShouldBreak(i, elapsed) == i >= MinLoops /\ elapsed

\* lines 1298-1340: run_and_parse_tests returns the parsed records of the run,
\* all with loop index CODEFLASH_LOOP_INDEX, or an empty TestResults when the
\* run timed out (1322-1326) or left no record.
LoopRunOutcomes == {"records", "empty"}

\* lines 1087 and 1218: unittest_results.merge(loop results)
Merge(l, outcome, loop_index) ==
  IF outcome = "records"
    THEN [l EXCEPT !.n_indices = @ + 1, !.max_index = loop_index]
    ELSE l

\* lines 1076-1087: one iteration; wall-clock time passes while the tests run.
LoopRun ==
  /\ loop.pc = "head"
  /\ loop.i < MaxLoops
  /\ ~LoopShouldBreak(loop.i, loop.elapsed)
  /\ \E outcome \in LoopRunOutcomes, elapses \in BOOLEAN :
       loop' = [Merge(loop, outcome, loop.i + 1)
                  EXCEPT !.i = @ + 1, !.elapsed = @ \/ elapses]
  /\ UNCHANGED <<mainVars, gen, wt, posthog, db>>

\* lines 1077-1078: break
LoopBreak ==
  /\ loop.pc = "head"
  /\ loop.i < MaxLoops
  /\ LoopShouldBreak(loop.i, loop.elapsed)
  /\ loop' = [loop EXCEPT !.pc = "done"]
  /\ UNCHANGED <<mainVars, gen, wt, posthog, db>>

\* line 1076: range(100) is exhausted
LoopExhausted ==
  /\ loop.pc = "head"
  /\ loop.i = MaxLoops
  /\ loop' = [loop EXCEPT !.pc = "done"]
  /\ UNCHANGED <<mainVars, gen, wt, posthog, db>>

NextLoop ==
  \/ LoopRun
  \/ LoopBreak
  \/ LoopExhausted

SpecLoop == InitScan /\ [][NextLoop]_vars

\* -------------------------------------- the working trees of one function
\* A candidate as lines 340-394 see it: for each module, whether its
\* optimized text differs from the original after normalization.
Patterns == [Modules -> BOOLEAN]

\* lines 396-400: not all(zero_diff values), some module differs.
HasDiffs(p) == \E m \in Modules : p[m]

\* The patterns of the candidates lines 396-400 keep.
DiffPatterns == {p \in Patterns : HasDiffs(p)}

\* lines 978-994: the candidates of one set, N_CANDIDATES being asked for.
Candidates == UNION {[1..n -> Patterns] : n \in 0..NumCands}

\* a candidate with its optimization_id (its place in the set)
Identified(candidates) ==
  [c \in 1..Len(candidates) |-> [id |-> c, diff |-> candidates[c]]]

IsWithDiffs(c) == HasDiffs(c.diff)

\* Lines 396-400 without the condition: every candidate is kept.
candidates_with_diffs_Unfiltered(candidates) == Identified(candidates)

\* lines 396-400: candidates_with_diffs, in the order of the set.
candidates_with_diffs(candidates) == SelectSeq(Identified(candidates), IsWithDiffs)

\* lines 365-386: optimized_code[candidate][module_path], which is the
\* original up to normalization when the module has zero diff.
OptimizedCode(zero_diff, s, c) ==
  [kind |-> IF zero_diff THEN "zero_diff" ELSE "optimized", set |-> s, cand |-> c]

\* line 404: the condition under which a module is written to the tree.
ShouldWriteModule(zero_diff) == zero_diff

\* Line 402 zipping with worktrees instead of worktrees[1:].
PopulatedTree_FromZero(place) == place - 1

\* line 402: zip(candidates_with_diffs, worktrees[1:]) pairs the k-th
\* candidate with diffs (k from 1) with worktrees[k].
PopulatedTree(place) == place

\* lines 437-443: enumerate(candidates_with_diffs, start=1) and
\* worktrees[candidate_index].
DifferencedTree(candidate_index) == candidate_index

\* the places in candidates_with_diffs that lines 402-407 write to tree i
WrittenBy(cands, i) ==
  {place \in 1..Len(cands) :
     /\ PopulatedTree(place) = i
     /\ \E m \in Modules : ShouldWriteModule(~cands[place].diff[m])}

\* lines 402-407: the modules of each candidate that satisfy line 404 are
\* written to the tree zip pairs it with.
Populate(text, cands, s) ==
  [i \in DOMAIN text |->
     IF \E place \in 1..Len(cands) : PopulatedTree(place) = i
       THEN LET place == CHOOSE place \in 1..Len(cands) : PopulatedTree(place) = i
            IN  [m \in Modules |->
                   IF ShouldWriteModule(~cands[place].diff[m])
                     THEN OptimizedCode(~cands[place].diff[m], s, cands[place].id)
                     ELSE text[i][m]]
       ELSE text[i]]

\* the trees lines 402-407 write something to
WrittenTrees(cands) == {i \in 0..NumCands : WrittenBy(cands, i) # {}}

\* lines 337-338: the candidate set is None (the experiment set of a run
\* without experiment).
TreesSetSkip ==
  /\ wt.pc = "set"
  /\ wt.u = 1
  /\ wt' = [wt EXCEPT !.u = 2]
  /\ UNCHANGED <<mainVars, loop, gen, posthog, db>>

\* lines 340-436: candidates_with_diffs is computed and the trees populated.
TreesPopulate ==
  /\ wt.pc = "set"
  /\ wt.u < NumSets
  /\ \E candidates \in Candidates :
       LET cands == candidates_with_diffs(candidates) IN
       wt' = [wt EXCEPT !.pc = "diff", !.candidates = candidates,
                        !.cands = cands, !.j = 1,
                        !.text = Populate(wt.text, cands, wt.u),
                        !.written = [i \in DOMAIN wt.written |->
                                       {cands[place].id : place \in WrittenBy(cands, i)}],
                        !.used = [i \in DOMAIN wt.used |->
                                    wt.used[i] \cup
                                      {<<wt.u, cands[place].id>> : place \in WrittenBy(cands, i)}],
                        !.scanned = {}]
  /\ UNCHANGED <<mainVars, loop, gen, posthog, db>>

\* lines 437-460: crosshair diffbehavior on worktrees[candidate_index] and
\* worktrees[0].
TreesDiffbehavior ==
  /\ wt.pc = "diff"
  /\ wt.j <= Len(wt.cands)
  /\ LET tree == DifferencedTree(wt.j)
         cand == wt.cands[wt.j].id
     IN  wt' = [wt EXCEPT !.j = wt.j + 1,
                          !.used[tree] = wt.used[tree] \cup {<<wt.u, cand>>},
                          !.compared = <<[cand |-> <<wt.u, cand>>,
                                          tree |-> tree,
                                          optimized |-> wt.text[tree],
                                          original |-> wt.text[0]]>>]
  /\ UNCHANGED <<mainVars, loop, gen, posthog, db>>

\* line 437, the loop is exhausted: candidates_with_diffs is handed to
\* determine_best_candidate (527-537); then the next candidate set (336).
TreesSetEnd ==
  /\ wt.pc = "diff"
  /\ wt.j > Len(wt.cands)
  /\ wt' = [wt EXCEPT !.pc = "set", !.u = wt.u + 1, !.j = 1,
                      !.scanned = {wt.cands[place].id : place \in 1..Len(wt.cands)}]
  /\ UNCHANGED <<mainVars, loop, gen, posthog, db>>

\* lines 208-213 and 183-189: the trees are removed and the next function
\* gets new ones.
TreesRenew ==
  /\ wt.pc = "set"
  /\ wt.u = NumSets
  /\ wt' = NoTrees
  /\ UNCHANGED <<mainVars, loop, gen, posthog, db>>

NextTrees ==
  \/ TreesSetSkip
  \/ TreesPopulate
  \/ TreesDiffbehavior
  \/ TreesSetEnd
  \/ TreesRenew

SpecTrees == InitScan /\ [][NextTrees]_vars

\* ------------------------------------------------- telemetry (posthog_cf)
\* The events captured are followed up to this many.
MaxEvents == 4

\* the events run() logs (optimizer.py lines 106 and 221)
Events == {"cli-optimize-run-start", "cli-optimize-run-finished"}

\* posthog_cf.py lines 35-46: ph() returns when _posthog is None, and
\* captures the event when get_user_id() returns a user id.
Capture(p, event, has_user_id) ==
  IF ~p.client THEN p
  ELSE IF has_user_id THEN [p EXCEPT !.captured = Append(@, event)]
  ELSE p

\* posthog_cf.py lines 15-26: initialize_posthog(enabled).
InitializePosthog ==
  /\ Len(posthog.captured) < MaxEvents
  /\ \E enabled \in BOOLEAN, has_user_id \in BOOLEAN :
       posthog' =
         IF ~enabled
           THEN [posthog EXCEPT !.last_call = "disabled"]          \* lines 20-21
           ELSE Capture([posthog EXCEPT !.client = TRUE, !.last_call = "enabled"],
                        "cli-telemetry-enabled", has_user_id)      \* lines 23-26
  /\ UNCHANGED <<mainVars, loop, gen, wt, db>>

\* posthog_cf.py lines 29-46: ph(event).
Ph ==
  /\ Len(posthog.captured) < MaxEvents
  /\ \E event \in Events, has_user_id \in BOOLEAN :
       posthog' = Capture(posthog, event, has_user_id)
  /\ UNCHANGED <<mainVars, loop, gen, wt, db>>

NextPosthog ==
  \/ InitializePosthog
  \/ Ph

SpecPosthog == InitScan /\ [][NextPosthog]_vars

\* --------------------------------------------- test discovery (utilsdb)
TestClasses == {"TestA", "TestB"}

TestFunctions == {"test_one"}

\* TestType.EXISTING_UNIT_TEST.value
TestTypes == {1}

\* utilsdb.py lines 75-77: what add_test_file reads of a test.
FunctionCalledInTest ==
  [test_class : TestClasses, test_function : TestFunctions, test_type : TestTypes]

\* The number of tests one file_to_test_map holds at most.
MaxTests == 2

TestLists == UNION {[1..n -> FunctionCalledInTest] : n \in 0..MaxTests}

\* the files of the map: m[f] is <<>> when f is not a key, <<tests>> when it is
Keys(m) == {f \in Files : m[f] # <<>>}

RECURSIVE CountTests(_, _)
CountTests(m, files) ==
  IF files = {}
    THEN 0
    ELSE LET f == CHOOSE f \in files : TRUE
         IN  Len(m[f][1]) + CountTests(m, files \ {f})

\* utilsdb.py line 43: file_to_test_map, a dict from test file to its tests.
FileToTestMaps ==
  {m \in [Files -> {<<>>} \cup {<<tests>> : tests \in TestLists}] :
     CountTests(m, Keys(m)) <= MaxTests}

\* utilsdb.py line 51: the orders in which .items() can yield the keys.
ItemOrders(m) ==
  {o \in [1..Cardinality(Keys(m)) -> Keys(m)] :
     \A a, b \in DOMAIN o : o[a] = o[b] => a = b}

\* utilsdb.py lines 18 and 52-55: INSERT OR IGNORE under UNIQUE(file_path);
\* AUTOINCREMENT gives the new row the next id.
InsertOrIgnoreFile(rows, file_path) ==
  IF \E i \in DOMAIN rows : rows[i] = file_path
    THEN rows
    ELSE Append(rows, file_path)

\* utilsdb.py lines 61-65: SELECT id FROM test_files WHERE file_path = ?
FileId(rows, file_path) ==
  CHOOSE i \in DOMAIN rows : rows[i] = file_path

\* utilsdb.py lines 73-78: the row of a test.
TestRow(file_id, test) ==
  [file_id |-> file_id, test_class |-> test.test_class,
   test_function |-> test.test_function, test_type |-> test.test_type]

\* The table without its UNIQUE constraint (line 32).
TestsConflict_None(row, stored) == FALSE

\* utilsdb.py line 32: UNIQUE(file_id, test_function).
TestsConflict(row, stored) ==
  /\ stored.file_id = row.file_id
  /\ stored.test_function = row.test_function

\* utilsdb.py lines 68-79: INSERT OR IGNORE INTO tests; the rows inserted
\* (cursor.rowcount) are none when the row conflicts with a stored one.
InsertOrIgnoreTest(tests, row) ==
  IF \E stored \in BagToSet(tests) : TestsConflict(row, stored)
    THEN tests
    ELSE tests (+) SetToBag({row})

\* utilsdb.py lines 67-83: the tests of one file, from the i-th on.
RECURSIVE AddTests(_, _, _, _)
AddTests(acc, file_id, tests, i) ==
  IF i > Len(tests)
    THEN acc
    ELSE LET after == InsertOrIgnoreTest(acc.tests, TestRow(file_id, tests[i]))
             rowcount == IF after = acc.tests THEN 0 ELSE 1
         IN  AddTests([acc EXCEPT !.tests = after,
                                  !.total_duplicates = @ + (1 - rowcount),
                                  !.total_added = @ + rowcount],
                      file_id, tests, i + 1)

\* utilsdb.py lines 51-83: the files of the map, from the n-th on.
RECURSIVE AddFiles(_, _, _, _)
AddFiles(acc, m, order, n) ==
  IF n > Len(order)
    THEN acc
    ELSE LET after == InsertOrIgnoreFile(acc.test_files, order[n])
             rowcount == IF after = acc.test_files THEN 0 ELSE 1
             counted == [acc EXCEPT !.test_files = after,
                                    !.total_duplicates = @ + (1 - rowcount),
                                    !.total_added = @ + rowcount]
         IN  AddFiles(AddTests(counted, FileId(after, order[n]), m[order[n]][1], 1),
                      m, order, n + 1)

\* utilsdb.py lines 7-39: get_db_connection creates the file and the two
\* tables only when DB_PATH does not exist.
GetDbConnection ==
  /\ db' = IF db.file = "absent" THEN [db EXCEPT !.file = "tables"] ELSE db
  /\ db' # db
  /\ UNCHANGED <<mainVars, loop, gen, wt, posthog>>

\* utilsdb.py lines 43-92: add_test_file(file_to_test_map).  Without the
\* tables the first INSERT raises sqlite3.OperationalError; sqlite3.connect
\* (line 44) has created the file by then.
AddTestFile ==
  /\ \E m \in FileToTestMaps : \E order \in ItemOrders(m) :
       IF db.file = "tables"
         THEN LET acc == AddFiles([test_files |-> db.test_files, tests |-> db.tests,
                                   total_duplicates |-> 0, total_added |-> 0],
                                  m, order, 1)
              IN  db' = [db EXCEPT
                           !.test_files = acc.test_files,
                           !.tests = acc.tests,
                           !.last = [status |-> "ok", map |-> m,
                                     total_records |-> acc.total_added + acc.total_duplicates,
                                     total_duplicates |-> acc.total_duplicates,
                                     total_added |-> acc.total_added]]
         ELSE /\ Keys(m) # {}
              /\ db' = [db EXCEPT !.file = "empty",
                                  !.last = [status |-> "OperationalError", map |-> m,
                                            total_records |-> 0, total_duplicates |-> 0,
                                            total_added |-> 0]]
  /\ UNCHANGED <<mainVars, loop, gen, wt, posthog>>

NextDb ==
  \/ GetDbConnection
  \/ AddTestFile

SpecDb == InitScan /\ [][NextDb]_vars

\* ------------------------------------------ generate_tests_and_optimizations()
\* The number of test-generation tasks submitted for a function.
N_TESTS_TO_GENERATE == 2

\* lines 1342-1366: one generate_tests task per test index
TestTasks == {<<"tests", n>> : n \in 1..N_TESTS_TO_GENERATE}

\* lines 978-983: the candidates of the control group
ControlTask == <<"candidates", 0>>

\* lines 988-995: the candidates of the experiment group
ExperimentTask == <<"candidates", 1>>

\* lines 968-995: the tasks submitted to the executor
Submitted(run_experiment) ==
  TestTasks \cup {ControlTask} \cup (IF run_experiment THEN {ExperimentTask} ELSE {})

\* The list futures without the append of line 995.
Awaited_WithoutExperiment(run_experiment) ==
  TestTasks \cup {ControlTask}

\* lines 986-995: the list futures that line 998 waits on
Awaited(run_experiment) ==
  TestTasks \cup {ControlTask} \cup (IF run_experiment THEN {ExperimentTask} ELSE {})

\* What a finished task returns: generate_tests a pair of sources or None,
\* optimize_python_code a list of candidates, possibly empty.
TaskResults(t) == IF t \in TestTasks THEN {"test", "None"} ELSE {"empty", "some"}

\* lines 1009-1019: the tests of the workers that produced one
GeneratedTests(futures) == {t \in TestTasks : futures[t] = "test"}

\* Lines 1020-1022 failing as soon as one worker produced no test.
GenOutcome_EveryWorkerNeeded(futures) ==
  IF futures[ControlTask] # "some" THEN "Failure"
  ELSE IF GeneratedTests(futures) # TestTasks THEN "Failure"
  ELSE "Success"

\* lines 1001-1027: the Result returned once the futures are read
GenOutcome(futures) ==
  IF futures[ControlTask] # "some" THEN "Failure"              \* lines 1002-1003
  ELSE IF GeneratedTests(futures) = {} THEN "Failure"          \* lines 1020-1022
  ELSE "Success"                                               \* line 1027

\* lines 966-995: the executor is created and every task is submitted.
GenSubmit ==
  /\ gen.pc = "start"
  /\ \E run_experiment \in BOOLEAN :
       gen' = [gen EXCEPT !.pc = "wait",
                          !.run_experiment = run_experiment,
                          !.futures = [t \in Submitted(run_experiment) |-> "pending"]]
  /\ UNCHANGED <<mainVars, loop, wt, posthog, db>>

\* A worker thread finishes its task.
GenTaskDone ==
  /\ \E t \in DOMAIN gen.futures :
       /\ gen.futures[t] = "pending"
       /\ \E r \in TaskResults(t) : gen' = [gen EXCEPT !.futures[t] = r]
  /\ UNCHANGED <<mainVars, loop, wt, posthog, db>>

\* line 998: concurrent.futures.wait(futures) returns; lines 1001-1027 read
\* the results, which no longer blocks, and return.
GenReturn ==
  /\ gen.pc = "wait"
  /\ \A t \in Awaited(gen.run_experiment) : gen.futures[t] # "pending"
  /\ gen' = [gen EXCEPT !.pc = "returned", !.outcome = GenOutcome(gen.futures)]
  /\ UNCHANGED <<mainVars, loop, wt, posthog, db>>

\* lines 294-323 of optimize_function: a Failure ends the function, a Success
\* is followed by the baseline measurement, the first verification step.
GenVerify ==
  /\ gen.pc = "returned"
  /\ gen' = [gen EXCEPT !.pc = IF gen.outcome = "Success" THEN "verifying" ELSE "failed"]
  /\ UNCHANGED <<mainVars, loop, wt, posthog, db>>

NextGen ==
  \/ GenSubmit
  \/ GenTaskDone
  \/ GenReturn
  \/ GenVerify

SpecGen == InitScan /\ [][NextGen]_vars

\* ================================================================== claims
\* the positions of one candidate's verification step, after its apply
VerificationPcs == {"scan_apply_error", "scan_run", "scan_verdict", "scan_restore",
                    "scan_interrupted"}

\* the positions of determine_best_candidate
InScan == ScanPcs \cup {"scan_interrupted"}

Matched == compare_test_results(baseline.overall_test_results.loop1, candidate_results.loop1)

Bodies(d) == <<d.target.body, d.helper.body>>

\* C1: on every way a candidate's verification step can end (normal
\* completion, apply error, failure while running its tests, interruption),
\* the target file and the helper file hold their pre-apply text again.
C1_RoundTripOnEveryExit ==
  [][(pc \in VerificationPcs /\ pc' \notin VerificationPcs) => disk' = pre_apply]_vars

\* C2: a candidate whose loop-1 results do not match the baseline's gets a
\* Failure from run_optimized_candidate, and the verdict on it leaves
\* best_optimization and best_runtime_until_now unchanged.
C2_MismatchNeverSelected ==
  [][(pc = "scan_verdict" /\ ~Matched) =>
       /\ run_results.tag = "Failure"
       /\ best_optimization' = best_optimization
       /\ best_runtime_until_now' = best_runtime_until_now]_vars

\* Scenario B: C1 at 400,000 ns is best; C2 at 250,000 ns, one return value
\* differing, was judged and C1 is still best.
C2_Witness ==
  /\ pc = "scan_restore"
  /\ k = 2
  /\ baseline.runtime = 40
  /\ candidate_results.runtime = 10
  /\ candidate_results.loop1 = [baseline.overall_test_results.loop1 EXCEPT !["g"] = "pass1"]
  /\ baseline.overall_test_results.loop1["g"] = "pass0"
  /\ is_correct[2] = FALSE
  /\ best_optimization.candidate = 1
  /\ best_runtime_until_now = 16

\* C3: the outcome of run_optimized_candidate follows the decision table:
\* match with NoDifferences or Inconclusive is accepted, match with
\* CounterExamples is rejected, mismatch is rejected whatever the
\* classification.
C3_DecisionTable ==
  pc = "scan_verdict" =>
    LET D == diffbehavior_results[k]
        accepted == run_results.tag = "Success"
        rejected == run_results.tag = "Failure"
    IN  /\ (Matched /\ D = "NO_DIFFERENCES") => accepted
        /\ (Matched /\ D = "COUNTER_EXAMPLES") => rejected
        /\ (Matched /\ D = "ERROR") => accepted
        /\ (~Matched /\ D = "NO_DIFFERENCES") => rejected
        /\ (~Matched /\ D = "COUNTER_EXAMPLES") => rejected
        /\ (~Matched /\ D = "ERROR") => rejected

\* matching tests, concrete counterexamples from the differencer: rejected
C3_Witness ==
  /\ pc = "scan_verdict"
  /\ Matched
  /\ diffbehavior_results[k] = "COUNTER_EXAMPLES"
  /\ run_results.tag = "Failure"

\* C4: a candidate whose aggregate passed runtime is 0 is recorded as a
\* failure (is_correct false, no runtime, no speedup) and is not the best.
C4_ZeroRuntimeIsFailure ==
  (pc = "scan_restore" /\ candidate_results.runtime = 0) =>
    /\ is_correct[k] = FALSE
    /\ optimized_runtimes[k] = <<>>
    /\ speedup_ratios[k] = <<>>
    /\ best_optimization.candidate # k

\* C5: during one scan best_runtime_until_now never increases, and it and
\* best_optimization change only in the verdict on a candidate whose
\* run_optimized_candidate result is a Success.
C5_BestRuntimeMonotone ==
  [][(pc \in InScan /\ pc' \in InScan) =>
       /\ best_runtime_until_now' <= best_runtime_until_now
       /\ (\/ best_runtime_until_now' # best_runtime_until_now
           \/ best_optimization' # best_optimization)
            => (pc = "scan_verdict" /\ run_results.tag = "Success")]_vars

\* the second candidate of a scan lowered a best runtime set by the first
C5_Witness ==
  /\ pc = "scan_restore"
  /\ k = 2
  /\ 1 \in DOMAIN optimized_runtimes
  /\ optimized_runtimes[1] = <<16>>
  /\ best_optimization.candidate = 2
  /\ best_runtime_until_now = 10

\* C6: an accepted candidate replaces the incumbent exactly when its runtime
\* is strictly lower than the incumbent's and the quantity-of-tests check
\* passes; at an equal or higher runtime the incumbent stays.
C6_ReplaceIffFasterAndEvidence ==
  [][(pc = "scan_verdict" /\ pc' = "scan_restore" /\ run_results.tag = "Success") =>
       LET faster == run_results.best_test_runtime < best_runtime_until_now
           evidence == quantity_of_tests_critic(run_results)
       IN  /\ (faster /\ evidence) =>
                /\ best_optimization'.candidate = k
                /\ best_optimization'.runtime = run_results.best_test_runtime
                /\ best_runtime_until_now' = run_results.best_test_runtime
           /\ ~(faster /\ evidence) =>
                /\ best_optimization' = best_optimization
                /\ best_runtime_until_now' = best_runtime_until_now]_vars

\* Scenario C: C1 at 400,000 ns is best; C3 at 500,000 ns was accepted and
\* C1 is still best.
C6_Witness ==
  /\ pc = "scan_restore"
  /\ k = 2
  /\ baseline.runtime = 40
  /\ is_correct[2] = TRUE
  /\ optimized_runtimes[2] = <<20>>
  /\ best_optimization.candidate = 1
  /\ best_optimization.runtime = 16
  /\ best_runtime_until_now = 16

\* C7: whenever a candidate's tests run, the modules hold the text they held
\* when the function's optimization attempt began, modified by that
\* candidate alone.
C7_OnlyThisCandidateApplied ==
  pc = "scan_run" =>
    Bodies(disk) = Bodies(ReplaceFunctionAndHelpers(fn_start_disk, fi, cur_src, CandTag(fi, u, k)))

\* C8: the text the restore step writes to the target file after a candidate
\* is the text the file held immediately before that candidate was applied.
C8_RestoreWritesPreApplyText ==
  [][(pc \in {"scan_restore", "scan_apply_error"} /\ pc' = "scan_next")
       => disk'.target = pre_apply.target]_vars

\* C9: no candidate's tests run while the regression suite still holds a
\* generated test that failed against the original.
C9_FailingTestsRemovedBeforeCandidates ==
  pc = "scan_run" => suite_on_disk \cap test_functions_to_remove = {}

\* C10: the handler of an interruption that arrived during the scan writes
\* the original text back before the interruption leaves it, and once an
\* interruption is propagating no candidate is applied, no function is
\* started and the files are not written.
C10_InterruptRestoresThenStops ==
  [][/\ pc = "scan_interrupted" =>
          /\ disk' = WriteCodeAndHelpers(validated_original_code, original_helper_code)
          /\ pc' = "run_finally"
          /\ exc' = "KeyboardInterrupt"
     /\ (exc = "KeyboardInterrupt" /\ pc # "scan_interrupted") =>
          /\ pc' \in {"run_finally", "terminated"}
          /\ disk' = disk
          /\ fi' = fi]_vars

\* an interruption arrived while the first function's candidate was applied;
\* the original is back on disk and the second function was not started
C10_Witness ==
  /\ pc = "terminated"
  /\ exc = "KeyboardInterrupt"
  /\ interrupted_at = "scan_run"
  /\ pre_apply = disk
  /\ disk = WriteCodeAndHelpers(validated_original_code, original_helper_code)
  /\ fi = 1
  /\ env.funcs = 2

\* C11: when an interruption that arrived during the candidate scan, or after
\* the best candidate's code was written to the module, has ended the run,
\* the target module and the helper module hold the text they held when
\* the interrupted function's optimization attempt began.
C11_InterruptLeavesNoMutation ==
  (pc = "terminated" /\ exc = "KeyboardInterrupt"
     /\ interrupted_at \in ScanPcs \cup {"of_write_best", "of_pr"})
  => Bodies(disk) = Bodies(fn_start_disk)

\* the steps of run() and optimize_function during which a function's working
\* trees are in use
WorktreePcs == (RunPcs \cup InScan \cup {"run_after"}) \ {"run_module", "run_function"}

\* C12: when run() gives up control of a function (it goes on to the next
\* function, or leaves its loops normally or by an exception), the
\* function's working trees are removed and their root directory deleted.
C12_WorktreesTornDown ==
  [][(pc \in WorktreePcs /\ pc' \in {"run_function", "run_finally"})
       => worktrees' = NoWorktrees]_vars

\* C13: a working tree that git cannot create, or cannot remove, does not end
\* the batch: no exception leaves run(), which goes on with this function
\* (creation) or with the next one (removal).
C13_WorkingCopyFailureNotFatal ==
  [][/\ (pc = "run_function" /\ worktrees'.root
            /\ worktrees'.added < NumWorktrees(env))
          => (exc' = "none" /\ pc' = "of_context")
     /\ (pc = "run_after" /\ ~worktrees'.root /\ worktrees'.added > 0)
          => (exc' = "none" /\ pc' = IF fi < env.funcs THEN "run_function"
                                                      ELSE "run_finally")]_vars

\* C14: establish_original_code_baseline returns a failure exactly when no
\* test left a loop-1 record or the aggregate passed runtime is zero; a
\* baseline it returns has a loop-1 record and a runtime above zero.
C14_BaselineFailureIff ==
  [][(pc = "of_baseline_check" /\ pc' \in {"run_after", "of_set"})
       => /\ (pc' = "run_after")
               <=> (\/ \A t \in TestIds : baseline.overall_test_results.loop1[t] = "absent"
                    \/ baseline.runtime = 0)
          /\ (pc' = "of_set")
               => (/\ \E t \in TestIds : baseline'.overall_test_results.loop1[t] # "absent"
                   /\ baseline'.runtime > 0)]_vars

\* a baseline was returned with the generated test failing against the
\* original, the existing test passing and a runtime of 1,000,000 ns
C14_Witness ==
  /\ pc = "of_set"
  /\ baseline.overall_test_results.loop1["g"] = "fail"
  /\ baseline.overall_test_results.loop1["e"] = "pass0"
  /\ baseline.runtime = 40

\* the entry of diffbehavior_results stored for the candidate the differencer
\* ran on last, <<>> when none was stored
StoredClassification ==
  IF (j - 1) \in DOMAIN diffbehavior_results THEN <<diffbehavior_results[j - 1]>> ELSE <<>>

HasConcreteExample ==
  \E n \in 1..Len(result.examples) : result.examples[n] = "concrete"

\* C15: the classification stored for a candidate is COUNTER_EXAMPLES exactly
\* when the differencer's status is counterexamples-found and an example
\* without an object-identity token was reported; counterexamples-found with
\* only such examples, or none, is stored as inconclusive (ERROR), status
\* no-differences as NO_DIFFERENCES and status error as ERROR.
C15_SymbolicClassification ==
  (pc = "of_diff" /\ result # NoResult) =>
    /\ (StoredClassification = <<"COUNTER_EXAMPLES">>)
         <=> (result.returncode = "COUNTER_EXAMPLES" /\ HasConcreteExample)
    /\ (result.returncode = "COUNTER_EXAMPLES" /\ ~HasConcreteExample)
         => StoredClassification = <<"ERROR">>
    /\ (result.returncode = "NO_DIFFERENCES")
         => StoredClassification = <<"NO_DIFFERENCES">>
    /\ (result.returncode = "ERROR") => StoredClassification = <<"ERROR">>

\* counterexamples were found and every one holds an object-identity token:
\* the candidate is stored as inconclusive
C15_Witness ==
  /\ pc = "of_diff"
  /\ result = [returncode |-> "COUNTER_EXAMPLES", examples |-> <<"objectid">>]
  /\ StoredClassification = <<"ERROR">>

\* C16: the hand-driven repetition loop runs at least MinLoops and at most
\* MaxLoops iterations (so it terminates), stops at the first iteration
\* count of at least MinLoops at which the time budget has elapsed, and the
\* merged results hold at most MaxLoops distinct loop indices and, unless
\* every run failed, at least MinLoops.
C16_LoopBounds ==
  [][/\ (loop.pc = "head" /\ loop.i >= MinLoops /\ loop.elapsed) => loop'.pc = "done"
     /\ (loop'.pc = "done")
          => /\ loop'.i >= MinLoops
             /\ loop'.i <= MaxLoops
             /\ loop'.n_indices <= MaxLoops
             /\ loop'.n_indices = 0 \/ loop'.n_indices >= MinLoops]_vars

\* C17: the loop indices in the accumulated results are 1..k for some k, also
\* when iterations of the loop contribute an empty result.
C17_LoopIndicesContiguous ==
  loop.n_indices = loop.max_index

C19_BarrierBeforeVerification ==
  gen.pc = "verifying" => \A t \in DOMAIN gen.futures : gen.futures[t] # "pending"

\* verification starts in a run with an experiment group, whose task was
\* submitted last
C19_Witness ==
  /\ gen.pc = "verifying"
  /\ gen.run_experiment
  /\ ExperimentTask \in DOMAIN gen.futures

\* C20: a failure of one function (its context, its generation, its baseline,
\* or no best candidate) is followed by the next function, and run() ends
\* before every function was attempted only by an external interruption.
C20_OnlyInterruptionStopsBatch ==
  [][/\ (pc = "run_after" /\ of_result = "Failure" /\ fi < env.funcs)
          => (pc' = "run_function" \/ exc' = "KeyboardInterrupt")
     /\ (pc' = "terminated" /\ fi' < env.funcs) => exc' = "KeyboardInterrupt"]_vars

\* C21: when applying a candidate raises one of the caught apply errors, the
\* handler writes the original text of the target and helper modules back,
\* the candidate is neither run nor recorded nor selected, and the scan goes
\* on with the next candidate index, no exception being raised.
C21_ApplyErrorSkipsCandidate ==
  [][(pc = "scan_apply_error" /\ pc' # "scan_interrupted")
       => /\ disk' = WriteCodeAndHelpers(validated_original_code, original_helper_code)
          /\ disk' = pre_apply
          /\ pc' = "scan_next"
          /\ k' = k + 1
          /\ n_cands' = n_cands
          /\ exc' = "none"
          /\ best_optimization' = best_optimization
          /\ best_runtime_until_now' = best_runtime_until_now
          /\ run_results' = run_results
          /\ is_correct' = is_correct]_vars

\* the first of two candidates rewrote the target and raised an apply error:
\* the original is back on disk, nothing was recorded for it and the second
\* candidate is next
C21_Witness ==
  /\ pc = "scan_next"
  /\ k = 2
  /\ n_cands = 2
  /\ cur_src.t
  /\ 1 \notin DOMAIN is_correct
  /\ best_optimization = NoBest
  /\ disk = pre_apply

\* C22: once a function's optimization attempt has ended (optimize_function
\* has returned, or run() has ended with an error or an interruption), no
\* instrumented copy of a pre-existing test file is left on disk.
C22_InstrumentedTestsRemoved ==
  pc \in {"run_after", "run_function", "terminated"} => instrumented_tests = {}

\* C23: when a candidate's test run starts neither result-capture file of
\* its index exists, and when run_optimized_candidate has returned neither
\* exists again.
C23_ArtifactsCleared ==
  pc \in {"scan_run", "scan_verdict", "scan_restore"}
    => artifacts \cap ReturnValueFiles(k) = {}

\* the second candidate of a scan is about to run after the first one's
\* tests ran under index 1 and were judged
C23_Witness ==
  /\ pc = "scan_run"
  /\ k = 2
  /\ 1 \in DOMAIN is_correct
  /\ artifacts = {}

\* C24: the speedup recorded for a successful candidate of positive runtime
\* is (baseline runtime - candidate runtime) / candidate runtime (here in
\* thousandths), whatever the incumbent's runtime; and a first candidate at
\* 400,000 ns against a baseline of 1,000,000 ns, with matching tests that
\* all pass and NO_DIFFERENCES, becomes best with speedup 1.5.
C24_SpeedupAgainstBaseline ==
  pc = "scan_restore" =>
    /\ (is_correct[k] /\ optimized_runtimes[k] # <<0>>) =>
         speedup_ratios[k] =
           <<((baseline.runtime - optimized_runtimes[k][1]) * 1000)
               \div optimized_runtimes[k][1]>>
    /\ (/\ k = 1
        /\ baseline.runtime = 40
        /\ candidate_results.runtime = 16
        /\ PassedIds(candidate_results.loop1) = TestIds
        /\ Matched
        /\ diffbehavior_results[k] = "NO_DIFFERENCES")
         => /\ best_optimization.candidate = 1
            /\ best_optimization.runtime = 16
            /\ speedup_ratios[1] = <<1500>>

\* Scenario A followed by a faster second candidate: 400,000 ns recorded
\* with speedup 1.5, then 250,000 ns recorded with speedup 3 although the
\* incumbent stood at 400,000 ns
C24_Witness ==
  /\ pc = "scan_restore"
  /\ k = 2
  /\ baseline.runtime = 40
  /\ DOMAIN optimized_runtimes = {1, 2}
  /\ optimized_runtimes[1] = <<16>>
  /\ speedup_ratios[1] = <<1500>>
  /\ optimized_runtimes[2] = <<10>>
  /\ speedup_ratios[2] = <<3000>>
  /\ best_optimization.candidate = 2

\* C25: during one function's optimization attempt no working tree is
\* written with, or passed to the differencer for, two different candidates
\* (of either candidate set), and worktrees[0] is never written or used for
\* a candidate.
C25_OneTreePerCandidate ==
  /\ \A i \in DOMAIN wt.used : Cardinality(wt.used[i]) <= 1
  /\ wt.used[0] = {}
  /\ \A m \in Modules : wt.text[0][m] = OriginalText

\* C30: once the trees of a candidate set are populated, the tree of each
\* candidate with diffs holds the candidate's optimized text for every module
\* whose optimized text differs from the original after normalization, and
\* the tree given to the differencer as the optimized side holds text that
\* differs from the original in some module.
C30_TreeHoldsCandidateCode ==
  /\ wt.pc = "diff" =>
       \A i \in 1..Len(wt.cands) : \A m \in Modules :
          wt.cands[i].diff[m] => wt.text[i][m] = OptimizedCode(FALSE, wt.u, wt.cands[i].id)
  /\ wt.compared # <<>> =>
       \E m \in Modules : wt.compared[1].optimized[m].kind = "optimized"

\* C26: an event is captured only while the most recent initialize_posthog
\* call had enabled=True: none before the first call and none after a call
\* with enabled=False.
C26_TelemetryFollowsLastCall ==
  [][Len(posthog'.captured) > Len(posthog.captured)
       => posthog'.last_call = "enabled"]_vars

\* C27: a candidate whose test run left no loop-1 record fails the comparison
\* with the baseline's loop-1 results, which is made before the critics see
\* its runtime: run_optimized_candidate returns a Failure for it, it is
\* recorded as incorrect and it is not the best; and the best candidate of
\* a scan always has loop-1 records that matched the baseline's.
C27_NoLoopOneRecordRejected ==
  /\ (pc \in {"scan_verdict", "scan_restore"}
        /\ RecordedIds(candidate_results.loop1) = {})
       => /\ run_results.tag = "Failure"
          /\ best_optimization.candidate # k
          /\ pc = "scan_restore" => is_correct[k] = FALSE
  /\ (pc = "scan_restore" /\ best_optimization.candidate = k)
       => (Matched /\ RecordedIds(candidate_results.loop1) # {})

\* the differencer found no difference and the candidate's test run returned
\* an empty result set: the candidate is recorded as incorrect and the scan
\* has no best
C27_Witness ==
  /\ pc = "scan_restore"
  /\ RecordedIds(candidate_results.loop1) = {}
  /\ diffbehavior_results[k] = "NO_DIFFERENCES"
  /\ RecordedIds(baseline.overall_test_results.loop1) = TestIds
  /\ is_correct[k] = FALSE
  /\ best_optimization = NoBest

\* C28: when a scan completes, every candidate of the scan, the skipped ones
\* included, has one entry in each of is_correct, optimized_runtimes and
\* speedup_ratios, the runtime and the speedup being absent exactly when
\* is_correct is false.
C28_EveryCandidateHasVerdict ==
  [][(pc = "scan_next" /\ pc' \in {"of_write_best", "of_set"})
       => /\ DOMAIN is_correct = 1..n_cands
          /\ DOMAIN optimized_runtimes = 1..n_cands
          /\ DOMAIN speedup_ratios = 1..n_cands
          /\ \A c \in 1..n_cands :
               /\ (optimized_runtimes[c] = <<>>) <=> ~is_correct[c]
               /\ (speedup_ratios[c] = <<>>) <=> ~is_correct[c]]_vars

\* C29: whenever the scan looks up the symbolic classification of a
\* candidate whose code it has written to the module, diffbehavior_results
\* holds an entry for that candidate, whatever exit status its differencer
\* process returned.
C29_ClassificationExistsAtLookup ==
  pc = "scan_run" => k \in DOMAIN diffbehavior_results

C34_ZeroDiffCandidateExcluded ==
  \A c \in 1..Len(wt.candidates) :
    ~HasDiffs(wt.candidates[c]) =>
      /\ \A i \in 0..NumCands : c \notin wt.written[i]
      /\ (wt.pc = "diff" /\ wt.j > 1 => wt.compared[1].cand # <<wt.u, c>>)
      /\ c \notin wt.scanned

\* a set whose first candidate has zero diff everywhere and whose second has
\* a diff went through population, the differencer and the hand-over
C34_Witness ==
  /\ wt.pc = "set"
  /\ Len(wt.candidates) = 2
  /\ ~HasDiffs(wt.candidates[1])
  /\ HasDiffs(wt.candidates[2])
  /\ wt.scanned = {2}
  /\ wt.compared[1].cand[2] = 2

\* C32: if the scan of the control candidate set yielded a best optimization,
\* optimize_function returns Success whatever the scan of the experiment set
\* yields: the best optimization held when the experiment set is entered is
\* still one when the set is left, and the function returns Success exactly
\* when it holds one at the end of the set loop.
C32_ControlBestGivesSuccess ==
  [][/\ (u = 1 /\ of_best_optimization # NoBest /\ u' = NumSets)
          => of_best_optimization' # NoBest
     /\ (pc = "of_set" /\ u = NumSets /\ pc' = "run_after")
          => (of_result' = "Success" <=> of_best_optimization # NoBest)]_vars

\* C33: a BestOptimization held or returned by determine_best_candidate has
\* a runtime strictly lower than the baseline runtime; when the scan is over
\* and no successful candidate ran below the baseline, the result is None.
C33_BestBeatsBaseline ==
  /\ best_optimization # NoBest => best_optimization.runtime < baseline.runtime
  /\ of_best_optimization # NoBest => of_best_optimization.runtime < baseline.runtime
  /\ (/\ pc = "scan_next"
      /\ k > n_cands
      /\ \A c \in DOMAIN optimized_runtimes :
           optimized_runtimes[c] # <<>> => optimized_runtimes[c][1] >= baseline.runtime)
       => best_optimization = NoBest

\* the scan of two correct candidates is over: the first ran exactly as long
\* as the baseline and was not taken, the second ran below it and is the best
C33_Witness ==
  /\ pc = "scan_next"
  /\ k > n_cands
  /\ DOMAIN optimized_runtimes = {1, 2}
  /\ optimized_runtimes[1] = <<baseline.runtime>>
  /\ optimized_runtimes[2] # <<>>
  /\ best_optimization.candidate = 2
  /\ best_optimization.runtime < baseline.runtime

\* C35: at the start of every optimize_function call self.test_files is
\* empty: what an earlier function registered is not in the list the tests
\* of a later function are run from.
C35_TestFilesEmptyAtFunctionStart ==
  pc \in {"run_function", "of_context"} => test_files = {}

\* the second function of the module starts after the first one registered
\* its instrumented and generated test files and was optimized
C35_Witness ==
  /\ pc = "of_context"
  /\ fi = 2
  /\ optimizations_found = 1
  /\ test_files = {}

\* C36: whenever optimize_function has returned, after a baseline failure or
\* after the candidate scans, with Success or Failure, none of the generated
\* regression test files it wrote remains on disk.
C36_GeneratedTestsRemovedOnReturn ==
  pc = "run_after" => suite_on_disk = {}

\* the function returned after its generated test files had been written
\* and registered, and none of them is on disk
C36_Witness ==
  /\ pc = "run_after"
  /\ GeneratedTestIds \subseteq test_files
  /\ of_result = "Success"
  /\ suite_on_disk = {}

\* the tests of map m are all stored in d, under the ids of their files
AllStored(d, m) ==
  \A f \in Keys(m) :
    /\ \E i \in DOMAIN d.test_files : d.test_files[i] = f
    /\ \A t \in 1..Len(m[f][1]) :
         BagIn(TestRow(FileId(d.test_files, f), m[f][1][t]), d.tests)

\* C37: on an initialized database, after any sequence of add_test_file
\* calls test_files holds at most one row per file path and tests at most
\* one row per (file, test function); a call whose map names only files and
\* tests already stored adds no row, has total added 0 and counts every
\* processed record as a duplicate.
C37_AddTestFilePreventsDuplicates ==
  [][db'.file = "tables" =>
       /\ \A a, b \in DOMAIN db'.test_files :
            db'.test_files[a] = db'.test_files[b] => a = b
       /\ \A row \in BagToSet(db'.tests) :
            /\ CopiesIn(row, db'.tests) = 1
            /\ \A other \in BagToSet(db'.tests) :
                 (other.file_id = row.file_id /\ other.test_function = row.test_function)
                   => other = row
       /\ (db.file = "tables" /\ AllStored(db, db'.last.map)) =>
            /\ db'.test_files = db.test_files
            /\ db'.tests = db.tests
            /\ db'.last.total_added = 0
            /\ db'.last.total_duplicates =
                 Cardinality(Keys(db'.last.map)) + CountTests(db'.last.map, Keys(db'.last.map))
            /\ db'.last.total_records = db'.last.total_duplicates]_vars

\* both files hold a test; the last call named one of them with its stored
\* test twice, added nothing and counted the file and both tests as duplicates
C37_Witness ==
  /\ db.file = "tables"
  /\ db.last.status = "ok"
  /\ Len(db.test_files) = 2
  /\ BagCardinality(db.tests) = 2
  /\ Cardinality(Keys(db.last.map)) = 1
  /\ AllStored(db, db.last.map)
  /\ db.last.total_added = 0
  /\ db.last.total_duplicates = 3
  /\ db.last.total_records = 3

\* C38: add_test_file stores every distinct test of the map it is given: a
\* test is dropped only when a test with the same file, test class and test
\* function is already stored, so after a call every test of the map is in
\* the tests table with its class.
C38_EveryDistinctTestStored ==
  (db.file = "tables" /\ db.last.status = "ok") => AllStored(db, db.last.map)

====
